---- MODULE Spec2Model ----
(***************************************************************************)
(* Model of the throttled GitHub client of gh-octoscope                    *)
(* (internal/api/throttled_gh_client.go): FetchRunsWithJobs with its       *)
(* launch loop, worker goroutines, collector goroutine, closer goroutine   *)
(* and final select, and processRun, the per-run pipeline.                 *)
(*                                                                         *)
(* Goroutines are processes with a program counter each.  Unbuffered       *)
(* channels (resultChan, errorChan) are rendezvous: a send and the         *)
(* matching receive are one joint step.  sem is a buffered channel of      *)
(* capacity maxWorkers and is modelled by the number of elements in it.    *)
(* One call of executeWithRateLimit is one step whose outcome is nil, the  *)
(* last error of the wrapped call, or the context's error.                 *)
(***************************************************************************)
EXTENDS Integers, Sequences, FiniteSets, TLC

\* ---------------------------------------------------------------- bounds
MaxRuns == 2
MaxWorkersBound == 2
MaxAttempt == 2
MaxRetryLimit == 2
MaxBackoff == 2
MaxResetDelay == 1
MaxRetryAfter == 1
MaxPages == 2
MaxPageSize == 2
MaxBurst == 2
MaxTime == 2
MaxDurationMs == 151000

\* --------------------------------------------------------------- inputs
RunIdx == 1..MaxRuns
\* identifiers of workflows that runs refer to
WorkflowIds == {1, 2}
\* workflow list served by ListWorkflows: workflow 2 is missing from it
WorkflowLists == {{1}}
\* github.WorkflowRun: ID, WorkflowID, RunAttempt
RunRecords == [ID : RunIdx, WorkflowID : WorkflowIds, RunAttempt : 1..MaxAttempt]
\* run lists served by the remote API: run number k has ID k
RunLists == UNION {{rs \in [1..n -> RunRecords] : \A k \in 1..n : rs[k].ID = k} : n \in 0..MaxRuns}

NoWorkflow == 0
NoRun == [Run |-> 0, Workflow |-> NoWorkflow, UsageData |-> FALSE, Jobs |-> FALSE, AttemptJobs |-> {}]

VARIABLES
    maxWorkers,      \* throttledClient.maxWorkers
    remoteWorkflows, \* workflows the remote API serves
    remoteRuns,      \* runs the remote API serves
    cancelled,       \* ctx.Done() is closed
    cancelSnap,      \* history: what the program was doing when the context was cancelled
    pcMain,          \* position of FetchRunsWithJobs
    workflowMap,     \* workflowMap (set of keys; the value is the workflow itself)
    runs,            \* runs.WorkflowRuns
    idx,             \* loop variable i of the launch loop (1-based)
    wg,              \* counter of the sync.WaitGroup
    sem,             \* number of elements in the sem channel
    pc,              \* position of each worker goroutine
    result,          \* processRun's local result of each worker (NoRun once it is out of use)
    werr,            \* err of each worker
    attemptNum,      \* loop variable i of processRun's prior-attempt loop (1 outside the loop)
    pcCollector,     \* position of the collector goroutine
    runWithJobs,     \* the collector's loop variable
    results,         \* results slice
    pcCloser,        \* position of the closer goroutine
    resultClosed,    \* resultChan is closed
    errorClosed,     \* errorChan is closed
    doneClosed,      \* done is closed
    ret,             \* what FetchRunsWithJobs returned
    observed,        \* history: how often a worker's outcome was received
    calls,           \* history: how many times executeWithRateLimit was called (NotCounted where it is not followed)
    \* one call of executeWithRateLimit around a single remote request
    exRetryLimit,    \* throttledClient.retryLimit
    exRetryBackoff,  \* throttledClient.retryBackoff (in time units)
    exPc,            \* position of executeWithRateLimit
    exRetryCount,    \* retryCount
    exNow,           \* the clock
    exWait,          \* waitTime / backoff of the select the executor is blocked in
    exRet,           \* what executeWithRateLimit returned
    exCancelled,     \* ctx.Done() of the executor's context is closed
    exHist,          \* history: the invocations of fn so far
    exSleeps,        \* history: the waits started after a failed invocation
    exCancelSnap,    \* history: where the executor was when the context was cancelled
    \* one paginated list call under executeWithRateLimit, after the repository lookup
    lsPages,         \* the sizes of the pages the remote API serves for the list
    lsReports,       \* what the remote API puts in a page's total_count
    lsPc,            \* position of the caller
    lsRetryCount,    \* retryCount of the executeWithRateLimit call around the list function
    lsPage,          \* opt.Page, the page the list function requests next (1-based)
    lsAll,           \* the items accumulated by the list function
    lsTotal,         \* the accumulated *TotalCount
    lsTokenHeld,     \* limiter.Wait has returned and no request was issued since
    lsRequests,      \* history: the HTTP requests issued, with whether a token was acquired for each
    lsBurst,         \* the limiter's burst; the limiter's rate is one token per time unit
    lsNow,           \* the clock
    lsBucket,        \* the tokens in the limiter's bucket
    lsRet,           \* what the list function returned last (the variables fn assigns), or fetchData's error
    \* one call of Calculator.roundUpToMinute
    ruD,             \* the argument d, in milliseconds
    ruPc,            \* position of the call
    ruOut            \* the returned duration, in milliseconds

vars == <<maxWorkers, remoteWorkflows, remoteRuns, cancelled, cancelSnap, pcMain, workflowMap, runs, idx, wg, sem,
          pc, result, werr, attemptNum, pcCollector, runWithJobs, results, pcCloser,
          resultClosed, errorClosed, doneClosed, ret, observed, calls,
          exRetryLimit, exRetryBackoff, exPc, exRetryCount, exNow, exWait, exRet, exCancelled,
          exHist, exSleeps, exCancelSnap,
          lsPages, lsReports, lsPc, lsRetryCount, lsPage, lsAll, lsTotal, lsTokenHeld, lsRequests,
          lsBurst, lsNow, lsBucket, lsRet,
          ruD, ruPc, ruOut>>

execVars == <<exRetryLimit, exRetryBackoff, exPc, exRetryCount, exNow, exWait, exRet, exCancelled,
              exHist, exSleeps, exCancelSnap>>
\* the state of the operations that are not part of FetchRunsWithJobs' goroutines
listVars == <<lsPages, lsReports, lsPc, lsRetryCount, lsPage, lsAll, lsTotal, lsTokenHeld, lsRequests,
          lsBurst, lsNow, lsBucket, lsRet>>
roundVars == <<ruD, ruPc, ruOut>>
otherVars == <<execVars, listVars, roundVars>>

inputVars == <<maxWorkers, remoteWorkflows, remoteRuns>>
envVars == <<cancelled, cancelSnap>>
mainVars == <<pcMain, workflowMap, runs, idx, ret>>
workerVars == <<pc, result, werr, attemptNum>>
collectorVars == <<pcCollector, runWithJobs, results, doneClosed>>
closerVars == <<pcCloser, resultClosed, errorClosed>>

\* ------------------------------------------------------------- helpers
\* outcomes of one executeWithRateLimit call: limiter.Wait fails on a done context
ExecOutcomes == IF cancelled THEN {"ctxErr"} ELSE {"ok", "err"}

\* the history variable calls: one more call of executeWithRateLimit
NotCounted == -1
Counted(n) == IF n = NotCounted THEN n ELSE n + 1

\* capacity of sem
SemCapOffByOne == maxWorkers + 1
SemCap == maxWorkers

\* *runs.TotalCount of a list served in one page
TotalCount(rs) == Len(rs)

ReturnValue(list, isNil, err) == [results |-> list, isNil |-> isNil, err |-> err]
NotReturned == [results |-> <<>>, isNil |-> TRUE, err |-> "pending"]

\* worker r is inside processRun with a remote call still to make
InRemoteCall(r) == pc[r] \in {"usage", "jobs", "attempt"}
NoCancel == [waiting |-> FALSE, inflight |-> FALSE]

\* executeWithRateLimit is not being followed
ExecNoCancel == [pc |-> "never", calls |-> 0, now |-> 0]
ExecNotReturned == [kind |-> "pending", call |-> 0]
ExecIdle ==
    /\ exRetryLimit = 1
    /\ exRetryBackoff = 1
    /\ exPc = "idle"
    /\ exRetryCount = 0
    /\ exNow = 0
    /\ exWait = 0
    /\ exRet = ExecNotReturned
    /\ exCancelled = FALSE
    /\ exHist = <<>>
    /\ exSleeps = <<>>
    /\ exCancelSnap = ExecNoCancel

\* no list call is being followed
ListNotReturned == [kind |-> "pending", isNil |-> TRUE, items |-> <<>>, total |-> 0]
ListIdle ==
    /\ lsPages = <<0>>
    /\ lsReports = "list"
    /\ lsPc = "idle"
    /\ lsRetryCount = 0
    /\ lsPage = 1
    /\ lsAll = <<>>
    /\ lsTotal = 0
    /\ lsTokenHeld = FALSE
    /\ lsRequests = <<>>
    /\ lsBurst = 1
    /\ lsNow = 0
    /\ lsBucket = 1
    /\ lsRet = ListNotReturned

\* roundUpToMinute is not being followed
RoundIdle ==
    /\ ruD = 0
    /\ ruPc = "idle"
    /\ ruOut = 0

Init ==
    /\ maxWorkers \in 1..MaxWorkersBound
    /\ remoteWorkflows \in WorkflowLists
    /\ remoteRuns \in RunLists
    /\ cancelled = FALSE
    /\ cancelSnap = NoCancel
    /\ pcMain = "listWorkflows"
    /\ workflowMap = {}
    /\ runs = <<>>
    /\ idx = 1
    /\ wg = 0
    /\ sem = 0
    /\ pc = [r \in RunIdx |-> "idle"]
    /\ result = [r \in RunIdx |-> NoRun]
    /\ werr = [r \in RunIdx |-> "none"]
    /\ attemptNum = [r \in RunIdx |-> 1]
    /\ pcCollector = "idle"
    /\ runWithJobs = NoRun
    /\ results = <<>>
    /\ pcCloser = "idle"
    /\ resultClosed = FALSE
    /\ errorClosed = FALSE
    /\ doneClosed = FALSE
    /\ ret = NotReturned
    /\ observed = [r \in RunIdx |-> 0]
    /\ calls = NotCounted
    /\ ExecIdle
    /\ ListIdle
    /\ RoundIdle

\* ------------------------------------------------------ the environment
\* the caller cancels the context
Cancel ==
    /\ ~cancelled
    /\ cancelled' = TRUE
    /\ cancelSnap' = [waiting |-> (pcMain = "acquire" /\ sem = SemCap),
                       inflight |-> (pcMain # "returned" /\ \E r \in RunIdx : InRemoteCall(r))]
    /\ UNCHANGED <<otherVars, calls, inputVars, mainVars, wg, sem, workerVars, collectorVars, closerVars, observed>>

\* --------------------------------------------- FetchRunsWithJobs (main)
\* executeWithRateLimit(ListWorkflows); if err != nil { return nil, err }; workflowMap
MainListWorkflowsIgnoresError ==
    /\ pcMain = "listWorkflows"
    /\ \E o \in ExecOutcomes :
        /\ workflowMap' = IF o = "ok" THEN remoteWorkflows ELSE workflowMap
        /\ pcMain' = "listRuns"
        /\ ret' = ret
    /\ calls' = Counted(calls)
    /\ UNCHANGED <<otherVars, inputVars, envVars, runs, idx, wg, sem, workerVars, collectorVars, closerVars, observed>>
MainListWorkflows ==
    /\ pcMain = "listWorkflows"
    /\ \E o \in ExecOutcomes :
        IF o = "ok"
        THEN /\ workflowMap' = remoteWorkflows
             /\ pcMain' = "listRuns"
             /\ ret' = ret
        ELSE /\ ret' = ReturnValue(<<>>, TRUE, o)
             /\ pcMain' = "returned"
             /\ workflowMap' = workflowMap
    /\ calls' = Counted(calls)
    /\ UNCHANGED <<otherVars, inputVars, envVars, runs, idx, wg, sem, workerVars, collectorVars, closerVars, observed>>

MainListRuns ==
    /\ pcMain = "listRuns"
    /\ \E o \in ExecOutcomes :
        IF o = "ok"
        THEN /\ runs' = remoteRuns
             /\ IF TotalCount(remoteRuns) = 0
                THEN /\ ret' = ReturnValue(<<>>, FALSE, "none")
                     /\ pcMain' = "returned"
                     /\ pcCollector' = pcCollector
                ELSE /\ ret' = ret
                     /\ pcMain' = "loop"
                     /\ pcCollector' = "recv"
        ELSE /\ ret' = ReturnValue(<<>>, TRUE, o)
             /\ pcMain' = "returned"
             /\ UNCHANGED <<runs, pcCollector>>
    /\ calls' = Counted(calls)
    /\ UNCHANGED <<otherVars, inputVars, envVars, workflowMap, idx, wg, sem, workerVars, runWithJobs, results,
                   doneClosed, closerVars, observed>>

\* for i, run := range runs.WorkflowRuns { wg.Add(1)
MainWgAdd ==
    /\ pcMain = "loop"
    /\ idx <= Len(runs)
    /\ wg' = wg + 1
    /\ pcMain' = "acquire"
    /\ UNCHANGED <<otherVars, calls, inputVars, envVars, workflowMap, runs, idx, ret, sem, workerVars, collectorVars,
                   closerVars, observed>>

\* sem <- struct{}{} ; go func(index, run) {...}(i, run)
MainAcquire ==
    /\ pcMain = "acquire"
    /\ sem < SemCap
    /\ sem' = sem + 1
    /\ pc' = [pc EXCEPT ![idx] = "processRun"]
    /\ idx' = idx + 1
    /\ pcMain' = "loop"
    /\ UNCHANGED <<otherVars, calls, inputVars, envVars, workflowMap, runs, ret, wg, result, werr, attemptNum,
                   collectorVars, closerVars, observed>>

\* the loop is over: go func() { wg.Wait(); close(resultChan); close(errorChan) }()
MainStartCloser ==
    /\ pcMain = "loop"
    /\ idx > Len(runs)
    /\ pcCloser' = "wait"
    /\ pcMain' = "select"
    /\ UNCHANGED <<otherVars, calls, inputVars, envVars, workflowMap, runs, idx, ret, wg, sem, workerVars, collectorVars,
                   resultClosed, errorClosed, observed>>

\* a per-run skip instead of fail-fast: the error is received and the select goes on
MainSelectErrorSkip(r) ==
    /\ pcMain = "select"
    /\ pc[r] = "sendError"
    /\ pc' = [pc EXCEPT ![r] = "release"]
    /\ observed' = [observed EXCEPT ![r] = @ + 1]
    /\ UNCHANGED <<otherVars, calls, inputVars, envVars, mainVars, wg, sem, result, werr, attemptNum,
                   collectorVars, closerVars>>

\* select: case err := <-errorChan, a worker is sending (err != nil)
MainSelectError(r) ==
    /\ pcMain = "select"
    /\ pc[r] = "sendError"
    /\ ret' = ReturnValue(<<>>, TRUE, werr[r])
    /\ pcMain' = "returned"
    /\ pc' = [pc EXCEPT ![r] = "release"]
    /\ observed' = [observed EXCEPT ![r] = @ + 1]
    /\ UNCHANGED <<otherVars, calls, inputVars, envVars, workflowMap, runs, idx, wg, sem, result, werr, attemptNum,
                   collectorVars, closerVars>>

\* what a read of results can see when it is not ordered after the collector's
\* last append (a data race): the slice as it was, or its new length with the
\* element not written yet (the zero RunWithJobs); the read after the append
\* has completed is the read of results in the collector's next state
RacyResults ==
    IF pcCollector = "append" THEN {results, Append(results, NoRun)} ELSE {results}

\* select: case err := <-errorChan, the channel is closed (err == nil); return results, nil
MainSelectErrorClosed ==
    /\ pcMain = "select"
    /\ errorClosed
    /\ \E list \in RacyResults : ret' = ReturnValue(list, FALSE, "none")
    /\ pcMain' = "returned"
    /\ UNCHANGED <<otherVars, calls, inputVars, envVars, workflowMap, runs, idx, wg, sem, workerVars, collectorVars,
                   closerVars, observed>>

\* select: case <-done; return results, nil
MainSelectDone ==
    /\ pcMain = "select"
    /\ doneClosed
    /\ ret' = ReturnValue(results, FALSE, "none")
    /\ pcMain' = "returned"
    /\ UNCHANGED <<otherVars, calls, inputVars, envVars, workflowMap, runs, idx, wg, sem, workerVars, collectorVars,
                   closerVars, observed>>

\* select: case <-ctx.Done(); return nil, ctx.Err()
MainSelectCtx ==
    /\ pcMain = "select"
    /\ cancelled
    /\ ret' = ReturnValue(<<>>, TRUE, "ctxErr")
    /\ pcMain' = "returned"
    /\ UNCHANGED <<otherVars, calls, inputVars, envVars, workflowMap, runs, idx, wg, sem, workerVars, collectorVars,
                   closerVars, observed>>

Main ==
    \/ MainListWorkflows
    \/ MainListRuns
    \/ MainWgAdd
    \/ MainAcquire
    \/ MainStartCloser
    \/ \E r \in RunIdx : MainSelectError(r)
    \/ MainSelectErrorClosed
    \/ MainSelectDone
    \/ MainSelectCtx

\* ------------------------------------------------- processRun (worker r)
\* wfl, exists := workflowMap[*run.WorkflowID]
WorkflowAssumed(run) == TRUE
WorkflowExists(run) == run.WorkflowID \in workflowMap

\* result := RunWithJobs{Run: run, ...}; wfl, exists := workflowMap[*run.WorkflowID]
ProcessRunResolveSkipsUsage(r) ==
    /\ pc[r] = "processRun"
    /\ result' = [result EXCEPT ![r] = [NoRun EXCEPT !.Run = runs[r].ID, !.Workflow = runs[r].WorkflowID]]
    /\ pc' = [pc EXCEPT ![r] = "jobs"]
    /\ UNCHANGED <<otherVars, calls, inputVars, envVars, mainVars, wg, sem, werr, attemptNum, collectorVars, closerVars,
                   observed>>
ProcessRunResolve(r) ==
    /\ pc[r] = "processRun"
    /\ IF WorkflowExists(runs[r])
       THEN /\ result' = [result EXCEPT ![r] = [NoRun EXCEPT !.Run = runs[r].ID,
                                                         !.Workflow = runs[r].WorkflowID]]
            /\ pc' = [pc EXCEPT ![r] = "usage"]
       ELSE /\ result' = [result EXCEPT ![r] = [NoRun EXCEPT !.Run = runs[r].ID]]
            /\ pc' = [pc EXCEPT ![r] = "sendResult"]
    /\ UNCHANGED <<otherVars, calls, inputVars, envVars, mainVars, wg, sem, werr, attemptNum, collectorVars, closerVars,
                   observed>>

\* executeWithRateLimit(GetWorkflowRunUsageByID); if err != nil { return result, err }
ProcessRunUsageIgnoresError(r) ==
    /\ pc[r] = "usage"
    /\ \E o \in ExecOutcomes :
        /\ result' = [result EXCEPT ![r].UsageData = (o = "ok")]
        /\ werr' = [werr EXCEPT ![r] = IF o = "ok" THEN werr[r] ELSE o]
        /\ pc' = [pc EXCEPT ![r] = "jobs"]
    /\ calls' = Counted(calls)
    /\ UNCHANGED <<otherVars, inputVars, envVars, mainVars, wg, sem, attemptNum, collectorVars, closerVars, observed>>
ProcessRunUsage(r) ==
    /\ pc[r] = "usage"
    /\ \E o \in ExecOutcomes :
        IF o = "ok"
        THEN /\ result' = [result EXCEPT ![r].UsageData = TRUE]
             /\ pc' = [pc EXCEPT ![r] = "jobs"]
             /\ werr' = werr
        ELSE /\ werr' = [werr EXCEPT ![r] = o]
             /\ pc' = [pc EXCEPT ![r] = "sendError"]
             /\ result' = [result EXCEPT ![r] = NoRun]
    /\ calls' = Counted(calls)
    /\ UNCHANGED <<otherVars, inputVars, envVars, mainVars, wg, sem, attemptNum, collectorVars, closerVars, observed>>

\* executeWithRateLimit(ListWorkflowJobs); if *run.RunAttempt > 1 { for i := 1; ...
ProcessRunJobs(r) ==
    /\ pc[r] = "jobs"
    /\ \E o \in ExecOutcomes :
        IF o = "ok"
        THEN /\ result' = [result EXCEPT ![r].Jobs = TRUE]
             /\ pc' = [pc EXCEPT ![r] = IF runs[r].RunAttempt > 1 THEN "attempt" ELSE "sendResult"]
             /\ werr' = werr
        ELSE /\ werr' = [werr EXCEPT ![r] = o]
             /\ pc' = [pc EXCEPT ![r] = "sendError"]
             /\ result' = [result EXCEPT ![r] = NoRun]
    /\ calls' = Counted(calls)
    /\ UNCHANGED <<otherVars, inputVars, envVars, mainVars, wg, sem, attemptNum, collectorVars, closerVars, observed>>

\* the condition of the prior-attempt loop: i < int(*run.RunAttempt)
PriorAttemptInclusive(i, run) == i <= run.RunAttempt
PriorAttempt(i, run) == i < run.RunAttempt

\* executeWithRateLimit(ListWorkflowJobsAttempt(i)); result.AttemptJobs[i] = ...; i++
ProcessRunAttempt(r) ==
    /\ pc[r] = "attempt"
    /\ \E o \in ExecOutcomes :
        IF o = "ok"
        THEN /\ result' = [result EXCEPT ![r].AttemptJobs = @ \cup {attemptNum[r]}]
             /\ attemptNum' = [attemptNum EXCEPT ![r] = @ + 1]
             /\ pc' = [pc EXCEPT ![r] = IF PriorAttempt(attemptNum[r] + 1, runs[r])
                                        THEN "attempt" ELSE "sendResult"]
             /\ werr' = werr
        ELSE /\ werr' = [werr EXCEPT ![r] = o]
             /\ pc' = [pc EXCEPT ![r] = "sendError"]
             /\ result' = [result EXCEPT ![r] = NoRun]
             /\ attemptNum' = [attemptNum EXCEPT ![r] = 1]
    /\ calls' = Counted(calls)
    /\ UNCHANGED <<otherVars, inputVars, envVars, mainVars, wg, sem, collectorVars, closerVars, observed>>

\* ------------------------------------------- worker and collector goroutines
\* resultChan <- result, received by the collector's range loop
SendResult(r) ==
    /\ pc[r] = "sendResult"
    /\ pcCollector = "recv"
    /\ runWithJobs' = result[r]
    /\ pcCollector' = "append"
    /\ pc' = [pc EXCEPT ![r] = "release"]
    /\ result' = [result EXCEPT ![r] = NoRun]
    /\ attemptNum' = [attemptNum EXCEPT ![r] = 1]
    /\ observed' = [observed EXCEPT ![r] = @ + 1]
    /\ UNCHANGED <<otherVars, calls, inputVars, envVars, mainVars, wg, sem, werr, results, doneClosed, closerVars>>

\* defer func() { <-sem }()
WorkerRelease(r) ==
    /\ pc[r] = "release"
    /\ sem' = sem - 1
    /\ pc' = [pc EXCEPT ![r] = "wgDone"]
    /\ UNCHANGED <<otherVars, calls, inputVars, envVars, mainVars, wg, result, werr, attemptNum, collectorVars,
                   closerVars, observed>>

\* defer wg.Done()
WorkerDone(r) ==
    /\ pc[r] = "wgDone"
    /\ wg' = wg - 1
    /\ pc' = [pc EXCEPT ![r] = "done"]
    /\ UNCHANGED <<otherVars, calls, inputVars, envVars, mainVars, sem, result, werr, attemptNum, collectorVars,
                   closerVars, observed>>

\* the steps of worker r (the receive of its error is the aggregator's MainSelectError)
Worker(r) ==
    \/ ProcessRunResolve(r)
    \/ ProcessRunUsage(r)
    \/ ProcessRunJobs(r)
    \/ ProcessRunAttempt(r)
    \/ SendResult(r)
    \/ WorkerRelease(r)
    \/ WorkerDone(r)

\* results = append(results, runWithJobs)
CollectorAppend ==
    /\ pcCollector = "append"
    /\ results' = Append(results, runWithJobs)
    /\ pcCollector' = "recv"
    /\ UNCHANGED <<otherVars, calls, inputVars, envVars, mainVars, wg, sem, workerVars, runWithJobs, doneClosed,
                   closerVars, observed>>

\* the range loop ends on the closed resultChan; close(done)
CollectorClose ==
    /\ pcCollector = "recv"
    /\ resultClosed
    /\ doneClosed' = TRUE
    /\ pcCollector' = "exit"
    /\ UNCHANGED <<otherVars, calls, inputVars, envVars, mainVars, wg, sem, workerVars, runWithJobs, results,
                   closerVars, observed>>

Collector == CollectorAppend \/ CollectorClose

\* ------------------------------------------------------ closer goroutine
\* wg.Wait()
CloserDoesNotWait ==
    /\ pcCloser = "wait"
    /\ pcCloser' = "closeResult"
    /\ UNCHANGED <<otherVars, calls, inputVars, envVars, mainVars, wg, sem, workerVars, collectorVars, resultClosed,
                   errorClosed, observed>>
CloserWait ==
    /\ pcCloser = "wait"
    /\ wg = 0
    /\ pcCloser' = "closeResult"
    /\ UNCHANGED <<otherVars, calls, inputVars, envVars, mainVars, wg, sem, workerVars, collectorVars, resultClosed,
                   errorClosed, observed>>

CloserCloseResult ==
    /\ pcCloser = "closeResult"
    /\ resultClosed' = TRUE
    /\ pcCloser' = "closeError"
    /\ UNCHANGED <<otherVars, calls, inputVars, envVars, mainVars, wg, sem, workerVars, collectorVars, errorClosed, observed>>

CloserCloseError ==
    /\ pcCloser = "closeError"
    /\ errorClosed' = TRUE
    /\ pcCloser' = "exit"
    /\ UNCHANGED <<otherVars, calls, inputVars, envVars, mainVars, wg, sem, workerVars, collectorVars, resultClosed, observed>>

Closer == CloserWait \/ CloserCloseResult \/ CloserCloseError

\* ------------------------------------------------------- specifications
Next ==
    \/ Cancel
    \/ Main
    \/ \E r \in RunIdx : Worker(r)
    \/ Collector
    \/ Closer

Spec == Init /\ [][Next]_vars

\* every goroutine that can take a step eventually takes one (the Go scheduler
\* runs every runnable goroutine; every remote call returns); the caller need
\* not cancel
FairSpec ==
    /\ Spec
    /\ WF_vars(Main)
    /\ \A r \in RunIdx : SF_vars(Worker(r))
    /\ WF_vars(Collector)
    /\ WF_vars(Closer)

TypeOK ==
    /\ maxWorkers \in 1..MaxWorkersBound
    /\ cancelled \in BOOLEAN
    /\ pcMain \in {"idle", "listWorkflows", "listRuns", "loop", "acquire", "select", "returned"}
    /\ wg \in 0..Len(remoteRuns)
    /\ calls \in {NotCounted} \cup 0..(2 + 2 * Len(remoteRuns) + Len(remoteRuns) * 3)
    /\ sem \in 0..(MaxWorkersBound + 1)
    /\ \A r \in DOMAIN pc : pc[r] \in {"idle", "processRun", "usage", "jobs", "attempt", "sendResult",
                                    "sendError", "release", "wgDone", "done"}
    /\ pcCollector \in {"idle", "recv", "append", "exit"}
    /\ pcCloser \in {"idle", "wait", "closeResult", "closeError", "exit"}
    /\ exPc \in {"idle", "wait", "call", "sleep", "returned", "panicked"}
    /\ exRetryCount \in 0..(MaxRetryLimit + 1)
    /\ lsPc \in {"idle", "repo", "wait", "page", "sleep", "returned"}
    /\ lsRetryCount \in 0..(MaxRetryLimit + 1)
    /\ lsPage \in 1..MaxPages
    /\ lsTotal \in 0..(MaxPages * MaxPages * MaxPageSize)
    /\ lsTokenHeld \in BOOLEAN
    /\ lsBucket \in 0..lsBurst

\* ------------------------------------------------ executeWithRateLimit
(***************************************************************************)
(* One call of executeWithRateLimit around a single remote request fn,     *)
(* followed step by step: limiter.Wait, fn, the classification of fn's     *)
(* error and the wait that follows it.  The remote side picks the outcome  *)
(* of every invocation.  Time advances by the waits.                       *)
(***************************************************************************)
fetchVars == <<inputVars, envVars, mainVars, wg, sem, workerVars, collectorVars, closerVars, observed, calls>>

\* FetchRunsWithJobs is not running
FetchIdle ==
    /\ maxWorkers = 1
    /\ remoteWorkflows = {1}
    /\ remoteRuns = <<>>
    /\ cancelled = FALSE
    /\ cancelSnap = NoCancel
    /\ pcMain = "idle"
    /\ workflowMap = {}
    /\ runs = <<>>
    /\ idx = 1
    /\ wg = 0
    /\ sem = 0
    /\ pc = [r \in RunIdx |-> "idle"]
    /\ result = [r \in RunIdx |-> NoRun]
    /\ werr = [r \in RunIdx |-> "none"]
    /\ attemptNum = [r \in RunIdx |-> 1]
    /\ pcCollector = "idle"
    /\ runWithJobs = NoRun
    /\ results = <<>>
    /\ pcCloser = "idle"
    /\ resultClosed = FALSE
    /\ errorClosed = FALSE
    /\ doneClosed = FALSE
    /\ ret = NotReturned
    /\ observed = [r \in RunIdx |-> 0]
    /\ calls = NotCounted

\* a nil *time.Duration
NilDuration == -1

\* what fn can return at time exNow: nil, a *github.RateLimitError with its
\* Rate.Reset, a *github.AbuseRateLimitError with its RetryAfter, a transient
\* error, or a permanent client error (both are plain errors to the executor)
CallOutcomes ==
    {[kind |-> k, reset |-> 0, retryAfter |-> NilDuration] : k \in {"ok", "generic", "permanent"}}
    \cup {[kind |-> "rate", reset |-> exNow + d, retryAfter |-> NilDuration] : d \in 0..MaxResetDelay}
    \cup {[kind |-> "abuse", reset |-> 0, retryAfter |-> a] : a \in {NilDuration} \cup 1..MaxRetryAfter}

\* 1 << uint(n)
RECURSIVE Shl1(_)
Shl1(n) == IF n = 0 THEN 1 ELSE 2 * Shl1(n - 1)

\* c.retryBackoff * time.Duration(1<<uint(retryCount))
BackoffConstant(retryCount) == exRetryBackoff
Backoff(retryCount) == exRetryBackoff * Shl1(retryCount)

\* time.Until(rateLimitErr.Rate.Reset.Time)
RateLimitNoWait(reset) == 0
RateLimitWaitTime(reset) == reset - exNow

\* limiter.Wait(ctx) returns an error
LimiterWaitIgnoresCtx == FALSE
LimiterWaitFails == exCancelled

\* the for loop's post statement retryCount++, reached by continue too
RetryCountFreeOnRateLimit(kind, retryCount) == IF kind = "rate" THEN retryCount ELSE retryCount + 1
NextRetryCount(kind, retryCount) == retryCount + 1

\* other errors: if retryCount < c.retryLimit { backoff; sleep }
BackoffAfterEveryFailure(retryCount) == TRUE
BackoffBeforeRetry(retryCount) == retryCount < exRetryLimit

\* the for loop's condition retryCount <= c.retryLimit
LoopStopsOneEarly(retryCount) == retryCount < exRetryLimit
LoopContinues(retryCount) == retryCount <= exRetryLimit

ExecInit ==
    /\ FetchIdle
    /\ ListIdle
    /\ RoundIdle
    /\ exRetryLimit \in 1..MaxRetryLimit
    /\ exRetryBackoff \in 1..MaxBackoff
    /\ exPc = "wait"
    /\ exRetryCount = 0
    /\ exNow = 0
    /\ exWait = 0
    /\ exRet = ExecNotReturned
    /\ exCancelled = FALSE
    /\ exHist = <<>>
    /\ exSleeps = <<>>
    /\ exCancelSnap = ExecNoCancel

\* the caller cancels the context while executeWithRateLimit is running
ExecCancel ==
    /\ exPc \in {"wait", "call", "sleep"}
    /\ ~exCancelled
    /\ exCancelled' = TRUE
    /\ exCancelSnap' = [pc |-> exPc, calls |-> Len(exHist), now |-> exNow]
    /\ UNCHANGED <<fetchVars, listVars, roundVars, exRetryLimit, exRetryBackoff, exPc, exRetryCount, exNow, exWait, exRet,
                   exHist, exSleeps>>

\* if err = c.limiter.Wait(ctx); err != nil { return err }
ExecLimiterWait ==
    /\ exPc = "wait"
    /\ IF LimiterWaitFails
       THEN /\ exPc' = "returned"
            /\ exRet' = [kind |-> "ctxErr", call |-> 0]
       ELSE /\ exPc' = "call"
            /\ exRet' = exRet
    /\ UNCHANGED <<fetchVars, listVars, roundVars, exRetryLimit, exRetryBackoff, exRetryCount, exNow, exWait, exCancelled,
                   exHist, exSleeps, exCancelSnap>>

\* the end of a loop iteration (continue, or the end of the body), after the
\* failure of invocation number n with an error of the given kind
EndIteration(kind, n) ==
    /\ exRetryCount' = NextRetryCount(kind, exRetryCount)
    /\ IF LoopContinues(NextRetryCount(kind, exRetryCount))
       THEN /\ exPc' = "wait"
            /\ exRet' = exRet
       ELSE /\ exPc' = "returned"
            /\ exRet' = [kind |-> "err", call |-> n]

\* the executor blocks in select { case <-time.After(w): case <-ctx.Done(): }
StartSleep(kind, w, n) ==
    /\ exPc' = "sleep"
    /\ exWait' = w
    /\ exSleeps' = Append(exSleeps, [kind |-> kind, dur |-> w, retry |-> exRetryCount, call |-> n])
    /\ UNCHANGED <<exRetryCount, exRet>>

\* err = fn() and the classification of err
ExecCall ==
    /\ exPc = "call"
    /\ \E o \in CallOutcomes :
        LET n == Len(exHist) + 1 IN
        /\ exHist' = Append(exHist, [kind |-> o.kind, time |-> exNow, reset |-> o.reset,
                                     retryAfter |-> o.retryAfter, retry |-> exRetryCount])
        /\ CASE o.kind = "ok" ->
                  /\ exPc' = "returned"
                  /\ exRet' = [kind |-> "ok", call |-> 0]
                  /\ UNCHANGED <<exRetryCount, exWait, exSleeps>>
             [] o.kind = "rate" ->
                  IF RateLimitWaitTime(o.reset) > 0
                  THEN StartSleep("rate", RateLimitWaitTime(o.reset), n)
                  ELSE EndIteration(o.kind, n) /\ UNCHANGED <<exWait, exSleeps>>
             [] o.kind = "abuse" ->
                  \* abuseErr.RetryAfter.String() dereferences RetryAfter
                  IF o.retryAfter = NilDuration
                  THEN /\ exPc' = "panicked"
                       /\ UNCHANGED <<exRetryCount, exWait, exSleeps, exRet>>
                  ELSE StartSleep("abuse", o.retryAfter, n)
             [] OTHER ->
                  IF BackoffBeforeRetry(exRetryCount)
                  THEN StartSleep("backoff", Backoff(exRetryCount), n)
                  ELSE EndIteration(o.kind, n) /\ UNCHANGED <<exWait, exSleeps>>
    /\ UNCHANGED <<fetchVars, listVars, roundVars, exRetryLimit, exRetryBackoff, exNow, exCancelled, exCancelSnap>>

\* case <-time.After(waitTime): the timer fires first
ExecSleepDone ==
    /\ exPc = "sleep"
    /\ ~exCancelled
    /\ exNow' = exNow + exWait
    /\ exWait' = 0
    /\ EndIteration(exHist[Len(exHist)].kind, Len(exHist))
    /\ UNCHANGED <<fetchVars, listVars, roundVars, exRetryLimit, exRetryBackoff, exCancelled, exHist, exSleeps, exCancelSnap>>

\* case <-ctx.Done(): return ctx.Err()
ExecSleepCancelled ==
    /\ exPc = "sleep"
    /\ exCancelled
    /\ exPc' = "returned"
    /\ exRet' = [kind |-> "ctxErr", call |-> 0]
    /\ exWait' = 0
    /\ UNCHANGED <<fetchVars, listVars, roundVars, exRetryLimit, exRetryBackoff, exRetryCount, exNow, exCancelled,
                   exHist, exSleeps, exCancelSnap>>

ExecNext ==
    \/ ExecCancel
    \/ ExecLimiterWait
    \/ ExecCall
    \/ ExecSleepDone
    \/ ExecSleepCancelled

ExecSpec == ExecInit /\ [][ExecNext]_vars

\* ------------------------------------------------------ paginated lists
(***************************************************************************)
(* fetchData's remote requests up to the end of the first list call:       *)
(* GetRepository, called on the client directly, then a list function      *)
(* (ListWorkflows, ListRepositoryRuns, ListWorkflowJobs and                *)
(* ListWorkflowJobsAttempt have the same loop) passed as fn to             *)
(* executeWithRateLimit.  Every HTTP request is one step; the remote side  *)
(* picks whether it succeeds.  The context is context.Background().        *)
(***************************************************************************)
\* the lists the remote API can serve, as the sizes of their pages: an empty
\* list is one empty page, the pages of any other list are not empty
PageLists ==
    {<<0>>} \cup UNION {[1..k -> 1..MaxPageSize] : k \in 1..MaxPages}

\* the items of page j
PageItems(j) == [i \in 1..lsPages[j] |-> [page |-> j, item |-> i]]

RECURSIVE SumSizes(_)
SumSizes(k) == IF k = 0 THEN 0 ELSE SumSizes(k - 1) + lsPages[k]

\* *wfls.TotalCount of the response for page j: the API's total_count is the
\* number of items of the whole list; a server can also report the page's own size
PageTotalCount(j) == IF lsReports = "list" THEN SumSizes(Len(lsPages)) ELSE lsPages[j]

\* resp.NextPage of the response for page j
NextPage(j) == IF j < Len(lsPages) THEN j + 1 ELSE 0

\* the limiter's bucket dt time units later: rate.NewLimiter(rate.Limit(requestsPerSecond), burst)
Refill(tokens, dt) == IF tokens + dt > lsBurst THEN lsBurst ELSE tokens + dt

\* a request as it is recorded: token tells whether limiter.Wait returned
\* since the previous request
Request(req, j, ok) == [req |-> req, page |-> j, token |-> lsTokenHeld, ok |-> ok, time |-> lsNow]

\* return nil, err
PartialOnError(all, total) == [kind |-> "err", isNil |-> FALSE, items |-> all, total |-> total]
ListFailure(all, total) == [kind |-> "err", isNil |-> TRUE, items |-> <<>>, total |-> 0]

\* return allWfls, nil
ListSuccess(all, total) == [kind |-> "ok", isNil |-> FALSE, items |-> all, total |-> total]

\* allWfls := &github.Workflows{TotalCount: github.Int(0), Workflows: []*github.Workflow{}}
\* and opt without a Page, at the start of every call of the list function
StaleAccumulator == [all |-> lsAll, total |-> lsTotal, page |-> 1]
NewAccumulator == [all |-> <<>>, total |-> 0, page |-> 1]

ListInit ==
    /\ FetchIdle
    /\ exRetryLimit \in 1..MaxRetryLimit
    /\ exRetryBackoff = 1
    /\ exPc = "idle"
    /\ exRetryCount = 0
    /\ exNow = 0
    /\ exWait = 0
    /\ exRet = ExecNotReturned
    /\ exCancelled = FALSE
    /\ exHist = <<>>
    /\ exSleeps = <<>>
    /\ exCancelSnap = ExecNoCancel
    /\ lsPages \in PageLists
    /\ lsReports \in {"list", "page"}
    /\ lsPc = "repo"
    /\ lsRetryCount = 0
    /\ lsPage = 1
    /\ lsAll = <<>>
    /\ lsTotal = 0
    /\ lsTokenHeld = FALSE
    /\ lsRequests = <<>>
    /\ lsBurst \in 1..MaxBurst
    /\ lsNow = 0
    /\ lsBucket = lsBurst
    /\ RoundIdle
    /\ lsRet = ListNotReturned

\* repoDetails, err := ghClient.GetRepository(ctx)
ListGetRepository ==
    /\ lsPc = "repo"
    /\ lsTokenHeld' = FALSE
    /\ \E ok \in BOOLEAN :
        /\ lsRequests' = Append(lsRequests, Request("repo", 0, ok))
        /\ IF ok
           THEN /\ lsPc' = "wait"
                /\ lsRet' = lsRet
           ELSE /\ lsPc' = "returned"
                /\ lsRet' = ListFailure(<<>>, 0)
    /\ UNCHANGED <<fetchVars, execVars, roundVars, lsPages, lsReports, lsRetryCount, lsPage, lsAll, lsTotal,
                   lsBurst, lsNow, lsBucket>>

\* c.limiter.Wait(ctx) succeeds and fn() starts: the list function allocates
\* its accumulator and its options
ListLimiterWait ==
    /\ lsPc = "wait"
    /\ IF lsBucket > 0
       THEN /\ lsBucket' = lsBucket - 1
            /\ lsNow' = lsNow
       ELSE \* Wait sleeps until the next token is there and takes it
            /\ lsBucket' = 0
            /\ lsNow' = lsNow + 1
    /\ lsTokenHeld' = TRUE
    /\ lsPc' = "page"
    /\ lsPage' = NewAccumulator.page
    /\ lsAll' = NewAccumulator.all
    /\ lsTotal' = NewAccumulator.total
    /\ UNCHANGED <<fetchVars, execVars, roundVars, lsPages, lsReports, lsRetryCount, lsRequests, lsRet, lsBurst>>

\* the end of a loop iteration of executeWithRateLimit after fn failed
ListEndIteration ==
    /\ lsRetryCount' = NextRetryCount("generic", lsRetryCount)
    /\ lsPc' = IF LoopContinues(NextRetryCount("generic", lsRetryCount)) THEN "wait" ELSE "returned"

\* one iteration of the list function's loop: the request for page lsPage
ListPage ==
    /\ lsPc = "page"
    /\ lsTokenHeld' = FALSE
    /\ \E ok \in BOOLEAN :
        /\ lsRequests' = Append(lsRequests, Request("page", lsPage, ok))
        /\ IF ok
           THEN /\ lsAll' = lsAll \o PageItems(lsPage)
                /\ lsTotal' = lsTotal + PageTotalCount(lsPage)
                /\ lsRetryCount' = lsRetryCount
                /\ IF NextPage(lsPage) = 0
                   THEN /\ lsPc' = "returned"
                        /\ lsRet' = ListSuccess(lsAll', lsTotal')
                        /\ lsPage' = lsPage
                   ELSE /\ lsPc' = "page"
                        /\ lsRet' = lsRet
                        /\ lsPage' = NextPage(lsPage)
           ELSE \* return nil, err; the executor backs off unless this was the last attempt
                /\ lsRet' = ListFailure(lsAll, lsTotal)
                /\ UNCHANGED <<lsAll, lsTotal, lsPage>>
                /\ IF lsRetryCount < exRetryLimit
                   THEN /\ lsPc' = "sleep"
                        /\ lsRetryCount' = lsRetryCount
                   ELSE ListEndIteration
    /\ UNCHANGED <<fetchVars, execVars, roundVars, lsPages, lsReports, lsBurst, lsNow, lsBucket>>

\* case <-time.After(backoff)
ListSleepDone ==
    /\ lsPc = "sleep"
    /\ lsNow' = lsNow + Backoff(lsRetryCount)
    /\ lsBucket' = Refill(lsBucket, Backoff(lsRetryCount))
    /\ ListEndIteration
    /\ UNCHANGED <<fetchVars, execVars, roundVars, lsPages, lsReports, lsPage, lsAll, lsTotal, lsTokenHeld, lsRequests, lsRet,
                   lsBurst>>

\* time passes while the caller runs or a request is in flight
ListTick ==
    /\ lsPc \in {"repo", "wait", "page"}
    /\ lsNow < MaxTime
    /\ lsNow' = lsNow + 1
    /\ lsBucket' = Refill(lsBucket, 1)
    /\ UNCHANGED <<fetchVars, execVars, roundVars, lsPages, lsReports, lsPc, lsRetryCount, lsPage, lsAll, lsTotal, lsTokenHeld,
                   lsRequests, lsRet, lsBurst>>

ListNext ==
    \/ ListGetRepository
    \/ ListLimiterWait
    \/ ListPage
    \/ ListSleepDone
    \/ ListTick

ListSpec == ListInit /\ [][ListNext]_vars


\* --------------------------------------------------- end-to-end scenario
(***************************************************************************)
(* FetchRunsWithJobs as fetchData calls it, on a repository with one       *)
(* workflow and three runs of which run 2 is at its third attempt, with    *)
(* two workers.  The context is context.Background(), which is never       *)
(* cancelled; the remote side still picks the outcome of every call.  The  *)
(* calls of executeWithRateLimit are counted.                              *)
(***************************************************************************)
E2ERunIdx == 1..3
E2ERuns == [k \in E2ERunIdx |-> [ID |-> k, WorkflowID |-> 1, RunAttempt |-> IF k = 2 THEN 3 ELSE 1]]

E2EInit ==
    /\ maxWorkers = 2
    /\ remoteWorkflows = {1}
    /\ remoteRuns = E2ERuns
    /\ cancelled = FALSE
    /\ cancelSnap = NoCancel
    /\ pcMain = "listWorkflows"
    /\ workflowMap = {}
    /\ runs = <<>>
    /\ idx = 1
    /\ wg = 0
    /\ sem = 0
    /\ pc = [r \in E2ERunIdx |-> "idle"]
    /\ result = [r \in E2ERunIdx |-> NoRun]
    /\ werr = [r \in E2ERunIdx |-> "none"]
    /\ attemptNum = [r \in E2ERunIdx |-> 1]
    /\ pcCollector = "idle"
    /\ runWithJobs = NoRun
    /\ results = <<>>
    /\ pcCloser = "idle"
    /\ resultClosed = FALSE
    /\ errorClosed = FALSE
    /\ doneClosed = FALSE
    /\ ret = NotReturned
    /\ observed = [r \in E2ERunIdx |-> 0]
    /\ calls = 0
    /\ ExecIdle
    /\ ListIdle
    /\ RoundIdle

E2ENext ==
    \/ MainListWorkflows
    \/ MainListRuns
    \/ MainWgAdd
    \/ MainAcquire
    \/ MainStartCloser
    \/ \E r \in E2ERunIdx : MainSelectError(r)
    \/ MainSelectErrorClosed
    \/ MainSelectDone
    \/ \E r \in E2ERunIdx : Worker(r)
    \/ Collector
    \/ Closer

E2ESpec == E2EInit /\ [][E2ENext]_vars


\* --------------------------------------------------------- roundUpToMinute
(***************************************************************************)
(* Calculator.roundUpToMinute on a non-negative duration.  Durations are   *)
(* in milliseconds.                                                        *)
(***************************************************************************)
Second == 1000
Minute == 60 * Second
minute == 60
halfMinute == 30

\* int(d.Seconds()) for d >= 0: the float conversion truncates the fraction
IntSeconds(d) == d \div Second

\* d.Round(m) for d >= 0: to the nearest multiple of m, halfway values up
DurationRound(d, m) ==
    LET r == d % m
    IN  IF r + r < m THEN d - r ELSE d + m - r

roundUpToMinute(d) ==
    LET secondsPortion == IntSeconds(d) % minute
        rounded == DurationRound(d, Minute)
    IN  IF secondsPortion > 0 /\ secondsPortion < halfMinute
        THEN rounded + Minute
        ELSE rounded

RoundInit ==
    /\ FetchIdle
    /\ ExecIdle
    /\ ListIdle
    /\ ruD \in 0..MaxDurationMs
    /\ ruPc = "call"
    /\ ruOut = 0

RoundCall ==
    /\ ruPc = "call"
    /\ ruOut' = roundUpToMinute(ruD)
    /\ ruPc' = "done"
    /\ UNCHANGED <<fetchVars, execVars, listVars, ruD>>

RoundNext == RoundCall

RoundSpec == RoundInit /\ [][RoundNext]_vars


\* ------------------------------------------------------------ properties
Returned == pcMain = "returned"
ReturnedOk == Returned /\ ret.err = "none"
ReturnedBundles == {ret.results[k] : k \in 1..Len(ret.results)}
\* processRun of worker r returned a nil error
Succeeded(r) == pc[r] \in {"sendResult", "release", "wgDone", "done"} /\ werr[r] = "none"
\* worker r was started and has not yet taken its slot off sem
Running(r) == pc[r] \notin {"idle", "wgDone", "done"}
Terminated(r) == pc[r] \in {"idle", "done"}

\* C1: whenever FetchRunsWithJobs returns without an error, the returned list
\* holds the bundle of every run whose processRun succeeded (stated for the
\* runs whose workflow was resolved, which are returned in any reading).
C1_NoBundleMissing ==
    ReturnedOk => \A r \in RunIdx :
        (Succeeded(r) /\ runs[r].WorkflowID \in workflowMap)
            => \E b \in ReturnedBundles : b.Run = runs[r].ID

\* C2: if every remote call returns and every goroutine is scheduled,
\* FetchRunsWithJobs eventually returns (stated for the behaviours in which
\* the context is never cancelled).
C2_EventuallyReturns == <>(Returned \/ cancelled)

\* C3: the number of pipelines started and not yet finished (slot acquired and
\* not yet released) never exceeds the worker ceiling.
C3_AtMostWRunning == Cardinality({r \in RunIdx : Running(r)}) <= maxWorkers

\* C3 witness: every slot is held by a running pipeline while the launch loop
\* waits for a slot for a further run.
C3_AllSlotsBusy ==
    /\ pcMain = "acquire"
    /\ sem = maxWorkers
    /\ Cardinality({r \in RunIdx : Running(r)}) = maxWorkers

\* C4: every slot acquired for a launched pipeline is eventually released by
\* that pipeline's worker, whether the pipeline succeeded or failed (stated
\* for the behaviours in which the context is never cancelled).
C4_SlotReleased ==
    \A r \in RunIdx : (pc[r] # "idle") ~> (pc[r] \in {"wgDone", "done"} \/ cancelled)

\* C5: the outcome of every launched pipeline is received exactly once (its
\* bundle by the collector or its error by the aggregator); no worker stays
\* blocked on its send (stated for the behaviours in which the context is
\* never cancelled).
C5_ObservedOnce ==
    /\ \A r \in RunIdx : [](observed[r] <= 1)
    /\ \A r \in RunIdx : (pc[r] # "idle") ~> (observed[r] = 1 \/ cancelled)

\* C6: after a return with an error or a cancellation every worker, the
\* collector and the closer eventually terminate, with both channels closed.
C6_NoLeak ==
    (Returned /\ ret.err # "none")
        ~> (/\ \A r \in RunIdx : Terminated(r)
            /\ pcCollector \in {"idle", "exit"}
            /\ pcCloser \in {"idle", "exit"}
            /\ (pcCloser = "exit" => resultClosed /\ errorClosed /\ wg = 0))

\* C7: a cancellation that arrives before the return, while dispatched
\* pipelines still have remote calls to make, leads to a return with an error
\* and to no slot being held.
C7_CancelReleasesSlots ==
    cancelSnap.inflight
        ~> (Returned /\ ret.err # "none" /\ sem = 0)

\* C8: a cancellation while the launch loop waits for a free slot makes
\* FetchRunsWithJobs return the cancellation error.
C8_AcquireCancellable ==
    cancelSnap.waiting
        ~> (Returned /\ ret.err = "ctxErr")

\* C9: the list returned without an error has no entry for a run whose
\* workflow identifier is absent from the workflow lookup map.
C9_MissingWorkflowOmitted ==
    ReturnedOk => \A b \in ReturnedBundles :
        b.Run \in DOMAIN runs => runs[b.Run].WorkflowID \in workflowMap

\* C10: every bundle in the list returned without an error is complete:
\* workflow resolved, usage fetched, current jobs fetched and the jobs of
\* every prior attempt fetched.
C10_NoPartialBundles ==
    ReturnedOk => \A b \in ReturnedBundles :
        /\ b.Workflow # NoWorkflow
        /\ b.UsageData
        /\ b.Jobs
        /\ b.AttemptJobs = 1..(runs[b.Run].RunAttempt - 1)

\* C11: fail-fast: once a run's pipeline has ended with an error,
\* FetchRunsWithJobs never returns a success; what it returns is a nil list
\* and an error.
C11_FailFast ==
    (Returned /\ \E r \in RunIdx : werr[r] # "none")
        => (ret.isNil /\ ret.err # "none" /\ ret.results = <<>>)

\* C11 witness: a pipeline failed after another one had delivered its bundle,
\* and the call returned that pipeline's error.
C11_ReturnedPipelineError ==
    /\ Returned
    /\ ret.err = "err"
    /\ \E r \in RunIdx : werr[r] = "err" /\ observed[r] = 1
    /\ results # <<>>

\* --------------------------------------- properties of executeWithRateLimit
ExecReturned == exPc = "returned"
Calls == Len(exHist)
LastCall == exHist[Len(exHist)]
\* the invocations before number n all failed with a transient error
GenericBefore(n) == \A i \in 1..(n - 1) : exHist[i].kind = "generic"

\* C12: with an uncancelled context and only transient errors, the executor
\* does not give up before retryLimit + 1 invocations: a success after
\* N <= retryLimit failures is returned as success, and an error is returned
\* only after retryLimit + 1 failures and is the error of the last invocation.
C12_TransientRetries ==
    (ExecReturned /\ ~exCancelled /\ Calls > 0 /\ GenericBefore(Calls)) =>
        /\ LastCall.kind = "ok" => (exRet.kind = "ok" /\ Calls <= exRetryLimit + 1)
        /\ LastCall.kind = "generic" =>
              (Calls = exRetryLimit + 1 /\ exRet = [kind |-> "err", call |-> exRetryLimit + 1])

\* C12 witness: retryLimit transient failures, then a success, returned as success.
C12_SucceededOnLastAttempt ==
    /\ ExecReturned
    /\ exRet.kind = "ok"
    /\ Calls = exRetryLimit + 1
    /\ exRetryLimit = MaxRetryLimit
    /\ GenericBefore(Calls)

\* C13: whatever the kinds of the failures, fn is invoked at most
\* retryLimit + 1 times, and when every invocation failed (context not
\* cancelled) the error returned is the one of the last invocation.
C13_RetryLimit ==
    /\ Calls <= exRetryLimit + 1
    /\ (ExecReturned /\ ~exCancelled /\ \A i \in 1..Calls : exHist[i].kind # "ok")
          => exRet = [kind |-> "err", call |-> Calls]

\* C13 witness: the limit was exhausted by a mix of primary rate-limit,
\* secondary rate-limit and transient failures.
C13_ExhaustedByMixedFailures ==
    /\ ExecReturned
    /\ exRet.kind = "err"
    /\ Calls = exRetryLimit + 1
    /\ {"rate", "abuse", "generic"} \subseteq {exHist[i].kind : i \in 1..Calls}

\* after a primary rate-limit failure the next invocation is not before the reset time
NextCallAfterReset ==
    \A i \in 2..Calls : exHist[i - 1].kind = "rate" => exHist[i].time >= exHist[i - 1].reset

\* C14 (as claimed): after a primary rate-limit failure the next invocation
\* is not before the reset time, and there is a next invocation whichever
\* attempt the failure arrived on: the executor never returns the rate-limit
\* error of an invocation it made (context not cancelled).
C14_RetryAfterResetAnyAttempt ==
    /\ NextCallAfterReset
    /\ (ExecReturned /\ ~exCancelled /\ Calls > 0) => LastCall.kind # "rate"

\* C14 (amended): after a primary rate-limit failure the next invocation is
\* not before the reset time; the failure is followed by another invocation
\* when it arrived before the last permitted attempt (retryCount < retryLimit),
\* whose success is returned as success; on the last permitted attempt the
\* executor returns the rate-limit error, not before the reset time.
C14_RetryAfterResetBelowLimit ==
    /\ NextCallAfterReset
    /\ (ExecReturned /\ ~exCancelled /\ Calls > 0 /\ LastCall.kind = "rate") =>
          /\ LastCall.retry = exRetryLimit
          /\ exNow >= LastCall.reset
          /\ exRet = [kind |-> "err", call |-> Calls]
    /\ (ExecReturned /\ Calls > 0 /\ LastCall.kind = "ok") => exRet.kind = "ok"

\* C14 witness: a rate-limit failure with a reset time in the future, on an
\* attempt after the first, followed by a successful invocation.
C14_SucceededAfterReset ==
    /\ ExecReturned
    /\ exRet.kind = "ok"
    /\ Calls > 2
    /\ exHist[Calls - 1].kind = "rate"
    /\ exHist[Calls - 1].reset > exHist[Calls - 1].time

\* C15: after a secondary rate-limit failure the executor sleeps for the
\* retry-after duration when there is one and for retryBackoff * 2^retryCount
\* when there is none, and does not crash.
C15_AbuseWaitThenRetry ==
    /\ exPc # "panicked"
    /\ \A k \in 1..Len(exSleeps) : exSleeps[k].kind = "abuse" =>
          exSleeps[k].dur = (IF exHist[exSleeps[k].call].retryAfter # NilDuration
                             THEN exHist[exSleeps[k].call].retryAfter
                             ELSE exRetryBackoff * 2^(exSleeps[k].retry))

\* C16: a permanent client error is returned immediately: no invocation and
\* no wait follows it.
C16_PermanentErrorNotRetried ==
    \A i \in 1..Calls : exHist[i].kind = "permanent" =>
        /\ Calls = i
        /\ ExecReturned
        /\ exRet = [kind |-> "err", call |-> i]
        /\ \A k \in 1..Len(exSleeps) : exSleeps[k].call # i

\* C17: the backoff slept after the failure of attempt number k (the
\* invocation number k + 1) with a transient error is retryBackoff * 2^k, and
\* the backoffs of one operation never decrease.
C17_ExponentialBackoff ==
    /\ \A k \in 1..Len(exSleeps) : exSleeps[k].kind = "backoff" =>
          exSleeps[k].dur = exRetryBackoff * 2^(exSleeps[k].call - 1)
    /\ \A j, k \in 1..Len(exSleeps) :
          (j < k /\ exSleeps[j].kind = "backoff" /\ exSleeps[k].kind = "backoff")
              => exSleeps[j].dur <= exSleeps[k].dur

\* C17 witness: two backoffs in one operation, the second one longer.
C17_TwoBackoffs ==
    \E j, k \in 1..Len(exSleeps) :
        /\ j < k
        /\ exSleeps[j].kind = "backoff"
        /\ exSleeps[k].kind = "backoff"
        /\ exSleeps[j].dur < exSleeps[k].dur

\* C18: once the context is cancelled during a wait (the token acquisition
\* or the wait after a failure) fn is never invoked again, no further time
\* is slept, and what the executor returns is the cancellation error.
C18_WaitsInterruptible ==
    exCancelSnap.pc \in {"wait", "sleep"} =>
        /\ Calls = exCancelSnap.calls
        /\ exNow = exCancelSnap.now
        /\ exPc \in {exCancelSnap.pc, "returned"}
        /\ ExecReturned => exRet.kind = "ctxErr"

\* C18 witness: cancellations during each kind of wait were answered by the
\* cancellation error.
C18_CancelledDuringBackoff ==
    /\ ExecReturned
    /\ exRet.kind = "ctxErr"
    /\ exCancelSnap.pc = "sleep"
    /\ Len(exSleeps) > 1
    /\ exSleeps[Len(exSleeps)].kind = "backoff"

\* --------------------------------------------------- properties of the lists
ListReturnedOk == lsPc = "returned" /\ lsRet.kind = "ok"

\* the items of pages 1..k in page order
RECURSIVE ServedItems(_)
ServedItems(k) == IF k = 0 THEN <<>> ELSE ServedItems(k - 1) \o PageItems(k)

\* the sum of the total counts reported with pages 1..k
RECURSIVE SumReported(_)
SumReported(k) == IF k = 0 THEN 0 ELSE SumReported(k - 1) + PageTotalCount(k)

\* C19: every remote HTTP request issued during a fetch, the repository
\* lookup and each page request of a paginated list included, is preceded by
\* its own token acquisition from the limiter.
C19_NoRequestBypassesLimiter ==
    \A i \in 1..Len(lsRequests) : lsRequests[i].token

\* C20: a list fetch served K pages returns the items of all pages in page
\* order, its reported total count is the sum of the counts reported with the
\* pages, and that total equals the length of the collection.
C20_TotalMatchesLength ==
    ListReturnedOk =>
        /\ lsRet.items = ServedItems(Len(lsPages))
        /\ lsRet.total = SumReported(Len(lsPages))
        /\ lsRet.total = Len(lsRet.items)

\* the last HTTP request issued
LastRequest == lsRequests[Len(lsRequests)]
PageFailed == Len(lsRequests) > 0 /\ LastRequest.req = "page" /\ ~LastRequest.ok

\* C21: when the request for page j of a list fails, the list function
\* returns a nil collection and the error, never the items of pages 1..j-1.
C21_PageFailureAbortsList ==
    PageFailed => /\ lsRet.kind = "err"
                  /\ lsRet.isNil
                  /\ lsRet.items = <<>>

\* a later page failed after an earlier page had delivered items
C21_FailedAfterItems ==
    /\ PageFailed
    /\ LastRequest.page > 1
    /\ Len(lsAll) > 0
    /\ lsRet.kind = "err"

\* an attempt of the list call failed on a page after the first
FailedOnLaterPage == \E i \in 1..Len(lsRequests) :
    lsRequests[i].req = "page" /\ lsRequests[i].page > 1 /\ ~lsRequests[i].ok

\* C29: when a paginated list call under executeWithRateLimit fails on a page
\* j > 1 and is retried, the retry starts again at page 1 with a fresh
\* accumulator: the collection finally returned holds every item exactly once
\* and its total count is the sum of the counts of one pass over the pages.
C29_RetryRestartsFresh ==
    /\ \A i \in 1..(Len(lsRequests) - 1) :
          (lsRequests[i].req = "page" /\ ~lsRequests[i].ok) => lsRequests[i + 1].page = 1
    /\ (ListReturnedOk /\ FailedOnLaterPage) =>
          /\ lsRet.items = ServedItems(Len(lsPages))
          /\ lsRet.total = SumReported(Len(lsPages))

\* the list call succeeded on a retry after an attempt had failed on a later page
C29_SucceededAfterLaterPageFailure ==
    /\ ListReturnedOk
    /\ FailedOnLaterPage
    /\ lsRetryCount > 0
    /\ Len(lsRet.items) > 1

\* --------------------------------------------------- properties of processRun
\* the position of a step in processRun; 4 for everything after the last step
StepRank(p) ==
    CASE p = "processRun" -> 0
      [] p = "usage" -> 1
      [] p = "jobs" -> 2
      [] p = "attempt" -> 3
      [] OTHER -> 4

\* C22: within one run's pipeline the steps are taken one after the other in
\* the order workflow resolution, usage, current-attempt jobs, prior-attempt
\* jobs: a worker moves only to the next step, and a step's result is stored
\* only when the results of all earlier steps are there and none of a later one.
C22_StepsInOrder ==
    [][\A r \in RunIdx :
        /\ (pc[r] # "idle" /\ pc'[r] # pc[r] /\ StepRank(pc'[r]) < 4)
              => StepRank(pc'[r]) = StepRank(pc[r]) + 1
        /\ (result'[r].UsageData /\ ~result[r].UsageData)
              => /\ pc[r] = "usage"
                 /\ result[r].Workflow # NoWorkflow
                 /\ ~result[r].Jobs
                 /\ result[r].AttemptJobs = {}
        /\ (result'[r].Jobs /\ ~result[r].Jobs)
              => /\ pc[r] = "jobs"
                 /\ result[r].UsageData
                 /\ result[r].AttemptJobs = {}
        /\ (result'[r].AttemptJobs # result[r].AttemptJobs /\ result'[r].AttemptJobs # {})
              => /\ pc[r] = "attempt"
                 /\ result[r].UsageData
                 /\ result[r].Jobs
      ]_vars

\* two runs are in flight at different steps: run 1 has its jobs and fetches a
\* prior attempt while run 2 has not fetched its usage yet
C22_RunsInterleave ==
    /\ pc[1] = "attempt"
    /\ result[1].Jobs
    /\ pc[2] = "usage"
    /\ ~result[2].UsageData

\* the bundles the collector has received so far
Collected ==
    {results[k] : k \in 1..Len(results)} \cup (IF pcCollector = "append" THEN {runWithJobs} ELSE {})

\* C23: for a run with attempt count A a successful pipeline fetches the jobs
\* of the prior attempts 1..A-1 in ascending order, one after the other, and
\* its bundle's AttemptJobs has exactly the keys 1..A-1; for A = 1 no
\* attempt-jobs call is made and the map is empty.
C23_PriorAttemptsAscending ==
    /\ \A r \in DOMAIN pc :
        /\ pc[r] = "attempt" =>
              /\ runs[r].RunAttempt > 1
              /\ attemptNum[r] \in 1..(runs[r].RunAttempt - 1)
              /\ result[r].AttemptJobs = 1..(attemptNum[r] - 1)
        /\ (pc[r] = "sendResult" /\ result[r].Workflow # NoWorkflow) =>
              result[r].AttemptJobs = 1..(runs[r].RunAttempt - 1)
    /\ \A b \in Collected :
        b.Workflow # NoWorkflow => b.AttemptJobs = 1..(runs[b.Run].RunAttempt - 1)

\* the bundle of a run at its third attempt and the bundle of a run at its
\* first attempt have both been collected
C23_BundlesOfBothKinds ==
    /\ \E b \in Collected : runs[b.Run].RunAttempt = 3 /\ b.AttemptJobs = {1, 2} /\ b.Jobs
    /\ \E b \in Collected : runs[b.Run].RunAttempt = 1 /\ b.AttemptJobs = {} /\ b.Jobs

\* no call has failed so far
NoFailureSoFar == ret.err \in {"pending", "none"} /\ \A r \in DOMAIN pc : werr[r] = "none"

\* C24: with single-page lists and no failures, for 3 discovered runs of
\* which run 2 has attempt count 3 and with worker ceiling 2,
\* FetchRunsWithJobs returns exactly 3 bundles, run 2's bundle holds its
\* current-attempt jobs and exactly 2 prior-attempt job lists, and
\* executeWithRateLimit has been called 1 + 1 + 3 * 2 + 2 = 10 times.
C24_EndToEnd ==
    (Returned /\ NoFailureSoFar) =>
        /\ ret.err = "none"
        /\ Len(ret.results) = 3
        /\ \E b \in ReturnedBundles : b.Run = 2 /\ b.Jobs /\ b.AttemptJobs = {1, 2}
        /\ calls = 1 + 1 + 3 * 2 + 2

\* the page requests issued from time a to time b
PageRequestsIn(a, b) ==
    {i \in 1..Len(lsRequests) : lsRequests[i].req = "page" /\ lsRequests[i].time \in a..b}

\* C25: with a limiter of one token per time unit and burst B, the number of
\* remote calls started in any window of t time units is at most B + t
\* (stated for the requests of a list call made through executeWithRateLimit).
C25_RateBound ==
    \A a \in 0..lsNow : \A b \in a..lsNow :
        Cardinality(PageRequestsIn(a, b)) <= lsBurst + (b - a)

\* the smallest whole number of minutes that is at least d
CeilMinute(d) == ((d + Minute - 1) \div Minute) * Minute

\* C26: roundUpToMinute returns, for every non-negative duration d at
\* millisecond granularity, the smallest whole number of minutes that is
\* greater than or equal to d.
C26_RoundsUpToWholeMinute ==
    ruPc = "done" => ruOut = CeilMinute(ruD)

\* C27: whenever FetchRunsWithJobs returns without an error, every worker
\* goroutine it launched has finished and released its slot: the wait group
\* is at zero and the semaphore is empty.
C27_SuccessMeansWorkersDone ==
    ReturnedOk =>
        /\ wg = 0
        /\ sem = 0
        /\ \A r \in DOMAIN pc : Terminated(r)

\* a success return after every discovered run was dispatched to a worker
C27_ReturnedAfterWorkers ==
    /\ ReturnedOk
    /\ Len(runs) = MaxRuns
    /\ \A r \in 1..Len(runs) : pc[r] = "done"
    /\ maxWorkers < Len(runs)

\* the runs of the fetched run list
Discovered == {runs[k].ID : k \in 1..Len(runs)}

\* C28: the list returned by FetchRunsWithJobs never contains the same run
\* twice and never contains a run that was not in the fetched run list.
C28_DistinctDiscoveredRuns ==
    ReturnedOk =>
        /\ \A k \in 1..Len(ret.results) : ret.results[k].Run \in Discovered
        /\ \A k, l \in 1..Len(ret.results) : ret.results[k].Run = ret.results[l].Run => k = l

\* C30: once a step of a run's pipeline has failed, processRun issues no
\* further remote call for that run: the worker is past processRun, on its
\* way to hand over the error and finish.
C30_NoCallAfterFailure ==
    \A r \in DOMAIN pc :
        werr[r] # "none" => pc[r] \in {"sendError", "release", "wgDone", "done"}

\* the pipeline of a run with prior attempts failed and its worker has finished
C30_FailedWorkerFinished ==
    \E r \in DOMAIN pc :
        /\ werr[r] = "err"
        /\ runs[r].RunAttempt > 1
        /\ pc[r] = "done"

\* the waits started after invocation number n
SleepsAfter(n) == {i \in 1..Len(exSleeps) : exSleeps[i].call = n}

\* every invocation so far failed with a transient error
AllGeneric == \A i \in 1..Calls : exHist[i].kind = "generic"

\* C31: for generic errors executeWithRateLimit sleeps only between attempts:
\* when all retryLimit + 1 invocations fail with generic errors there are
\* exactly retryLimit backoff sleeps, none after the last invocation, and the
\* error is returned at the time of that invocation; a primary or secondary
\* rate-limit error of the last permitted invocation is returned only after
\* the wait until the reset time or for the retry-after duration.
C31_SleepsOnlyBetweenAttempts ==
    (ExecReturned /\ exRet.kind = "err") =>
        /\ AllGeneric =>
              /\ Calls = exRetryLimit + 1
              /\ Len(exSleeps) = exRetryLimit
              /\ \A n \in 1..exRetryLimit : Cardinality(SleepsAfter(n)) = 1
              /\ SleepsAfter(Calls) = {}
              /\ exNow = LastCall.time
        /\ LastCall.kind = "rate" =>
              /\ exNow >= LastCall.reset
              /\ LastCall.reset > LastCall.time =>
                    \E i \in SleepsAfter(Calls) : exSleeps[i].dur = LastCall.reset - LastCall.time
        /\ LastCall.kind = "abuse" =>
              /\ exNow = LastCall.time + LastCall.retryAfter
              /\ \E i \in SleepsAfter(Calls) : exSleeps[i].dur = LastCall.retryAfter

\* retryLimit + 1 generic failures with the largest retry limit were returned
C31_GenericExhausted ==
    /\ ExecReturned
    /\ exRet.kind = "err"
    /\ AllGeneric
    /\ exRetryLimit = MaxRetryLimit
    /\ Len(exSleeps) = MaxRetryLimit

\* --------------------------------------- properties of the list phase
\* no goroutine of FetchRunsWithJobs was started
NothingLaunched ==
    /\ \A r \in DOMAIN pc : pc[r] = "idle"
    /\ wg = 0
    /\ sem = 0
    /\ pcCollector = "idle"
    /\ pcCloser = "idle"

\* C32: FetchRunsWithJobs requests the run list only after the workflow list
\* has succeeded and launches pipelines only after both lists have: a failed
\* workflow list or run list ends the call with a nil list and the error,
\* with no pipeline launched, and a run list with total count 0 ends it with
\* an empty list and no error, with no pipeline launched.
C32_ListsBeforePipelines ==
    /\ [](/\ pcMain \in {"listWorkflows", "listRuns"} => NothingLaunched
          /\ pcMain = "listRuns" => (workflowMap = remoteWorkflows /\ ret = NotReturned)
          /\ (Returned /\ runs = <<>>) =>
                /\ NothingLaunched
                /\ ret.results = <<>>
                /\ ret.err = "none" => (~ret.isNil /\ workflowMap = remoteWorkflows)
                /\ ret.err # "none" => ret.isNil
          /\ (\E r \in DOMAIN pc : pc[r] # "idle") =>
                (workflowMap = remoteWorkflows /\ runs = remoteRuns /\ TotalCount(runs) > 0))
    /\ [][/\ pcMain' = "listRuns" => pcMain \in {"listWorkflows", "listRuns"}
          /\ pcMain' = "loop" => pcMain \in {"listRuns", "loop", "acquire"}
          /\ Returned => (pcMain' = "returned" /\ ret' = ret)
          /\ (runs' # runs) => (pcMain = "listRuns" /\ runs' = remoteRuns)]_vars

\* the run list came back with a total count of 0 and an empty list was returned
C32_EmptyRunList ==
    /\ ReturnedOk
    /\ workflowMap = remoteWorkflows
    /\ remoteRuns = <<>>
    /\ ret.results = <<>>
    /\ ~ret.isNil

\* C33: a run whose workflow identifier is missing from the lookup map causes
\* no remote call: its worker is never at the usage, jobs or attempt-jobs
\* step and never has an error; and the lookup map is written only by the
\* list phase, never once a pipeline has started.
C33_MissingWorkflowNoCalls ==
    /\ [](\A r \in DOMAIN pc :
            (pc[r] # "idle" /\ runs[r].WorkflowID \notin workflowMap) =>
                /\ ~InRemoteCall(r)
                /\ pc[r] # "sendError"
                /\ werr[r] = "none"
                /\ ~result[r].UsageData
                /\ ~result[r].Jobs
                /\ result[r].AttemptJobs = {})
    /\ [][(workflowMap' # workflowMap) =>
              (pcMain = "listWorkflows" /\ \A r \in DOMAIN pc : pc[r] = "idle")]_vars

\* the worker of a run with a missing workflow has finished next to the
\* worker of a run whose workflow was found
C33_MissingWorkflowWorkerDone ==
    \E r, q \in DOMAIN pc :
        /\ pc[r] = "done"
        /\ runs[r].WorkflowID \notin workflowMap
        /\ runs[r].RunAttempt > 1
        /\ pc[q] = "done"
        /\ runs[q].WorkflowID \in workflowMap

====
